---- MODULE Spec2Model ----
(***************************************************************************)
(* Frame orchestration of dx::D3D (graphics/D3D.cpp): device resolution,   *)
(* command list submission, fence wait and swap chain rotation.            *)
(*                                                                         *)
(* One CPU thread runs Initialize, then any number of Render (and Simulate)*)
(* calls, then ShutDown.  The GPU drains the command queues in FIFO order  *)
(* and runs concurrently with the CPU thread: every CPU step below can be  *)
(* interleaved with GPU steps.                                             *)
(*                                                                         *)
(* The calls wrapped in assert(...) are modelled as executed (the build    *)
(* without NDEBUG): a failing call aborts the process.                     *)
(***************************************************************************)
EXTENDS Integers, Sequences, FiniteSets, TLC

\* ------------------------------------------------------------------ bounds
MaxFrames == 3
MaxSims == 2
MaxAdapters == 2
MaxShaderIds == 2

\* --------------------------------------------------------------- constants
FRAME_BUFFERS == 2

NoBuffer == FRAME_BUFFERS

VARIABLES
    pc,               \* position of the CPU thread
    caller,           \* the function WaitForPreviousFrame returns to
    adapters,         \* environment: adapters[i] = adapter i-1 supports feature level 12.1
    factoryOK,        \* environment: CreateDXGIFactory1 succeeds
    default11OK,      \* environment: the default adapter supports feature level 11.1
    adapterIndex,     \* loop variable of FindAndCreateDevice
    adapter,          \* ComPtr<IDXGIAdapter1> adapter: 0 = null, i = adapter i-1
    tried,            \* adapters D3D12CreateDevice was called on
    m_device,         \* "null", "12_1" or "11_1"
    findResult,       \* return value of FindAndCreateDevice: "none", "true", "false"
    created,          \* GPU objects created so far
    listState,        \* m_commandList: "none", "recording", "closed"
    recorded,         \* commands recorded in m_commandList since its last reset
    bufState,         \* per back buffer: resource state as tracked by the recorded barriers
    m_frameIndex,
    scIndex,          \* swap chain: GetCurrentBackBufferIndex()
    displayed,        \* buffer the presentation engine shows
    lastPresented,    \* buffer handed over by the most recent Present call
    gfxQueue,         \* m_commandQueue: submitted, not yet completed work
    fenceCompleted,   \* m_fence->GetCompletedValue()
    m_fenceValue,
    fence,            \* local of WaitForPreviousFrame
    fenceEvent,       \* m_fenceEvent is signaled
    eventPending,     \* values registered by SetEventOnCompletion, not yet reached
    rendersDone,
    presentCount,
    startIdx,         \* m_frameIndex observed at the start of each frame
    presentIdx,       \* m_frameIndex at each Present call
    released,         \* resources released by ShutDown
    waitPath,         \* how the last WaitForPreviousFrame got past its if: "none", "check", "event"
    compQueue,        \* m_computeCommandQueue: submitted, not yet completed work
    computeCompleted, \* m_computeFence->GetCompletedValue()
    m_computeFenceValue,
    computeEvent,     \* m_computeFenceEvent is signaled
    computePending,   \* values registered on m_computeFence, not yet reached
    simsDone,
    signals,          \* values passed to m_commandQueue->Signal, in call order
    barriers,         \* transition barriers recorded on the back buffers, in order
    submitted,        \* command lists handed to ExecuteCommandLists, in order
    m_shaders,        \* Shader::m_shaders: per id, the ShaderData registered
    shaderPc,         \* the thread using the Shader helper: "run", "aborted", "crashed"
    blobReads,        \* the blob slots read by the last pipeline-state creation
    registrations     \* per id, the number of successful insertions in m_shaders

vars == <<pc, caller, adapters, factoryOK, default11OK, adapterIndex, adapter, tried,
          m_device, findResult, created, listState, recorded, bufState, m_frameIndex,
          scIndex, displayed, lastPresented, gfxQueue, fenceCompleted, m_fenceValue,
          fence, fenceEvent, eventPending, rendersDone, presentCount, startIdx,
          presentIdx, released, waitPath, compQueue, computeCompleted,
          m_computeFenceValue, computeEvent, computePending, simsDone, signals,
          barriers, submitted, m_shaders, shaderPc, blobReads, registrations>>

envVars == <<adapters, factoryOK, default11OK>>
findVars == <<adapterIndex, adapter, tried, m_device, findResult>>
listVars == <<listState, recorded, bufState>>
ringVars == <<m_frameIndex, scIndex, displayed, lastPresented>>
fenceVars == <<fenceCompleted, m_fenceValue, fence, fenceEvent, eventPending, waitPath>>
compVars == <<compQueue, computeCompleted, m_computeFenceValue, computeEvent,
             computePending, simsDone>>
logVars == <<signals, barriers, submitted>>
shaderVars == <<m_shaders, shaderPc, blobReads, registrations>>
histVars == <<rendersDone, presentCount, startIdx, presentIdx, logVars>>

Buffers == 0 .. (FRAME_BUFFERS - 1)

\* Shaders::ID values
ShaderIds == 1 .. MaxShaderIds

\* no entry of m_shaders for an id
NoShader == [present |-> FALSE, type |-> {}, blobs |-> <<>>, pso |-> FALSE]

RECURSIVE SeqsUpTo(_)
SeqsUpTo(n) ==
    IF n = 0 THEN {<<>>}
    ELSE LET S == SeqsUpTo(n - 1)
         IN S \cup {Append(s, b) : s \in {t \in S : Len(t) = n - 1}, b \in BOOLEAN}

Init ==
    /\ pc = "Find_Factory"
    /\ caller = "none"
    /\ adapters \in SeqsUpTo(MaxAdapters)
    /\ factoryOK \in BOOLEAN
    /\ default11OK \in BOOLEAN
    /\ adapterIndex = 0
    /\ adapter = 0
    /\ tried = {}
    /\ m_device = "null"
    /\ findResult = "none"
    /\ created = {}
    /\ listState = "none"
    /\ recorded = <<>>
    /\ bufState = [b \in Buffers |-> "PRESENT"]
    /\ m_frameIndex = 0
    /\ scIndex = 0
    /\ displayed = NoBuffer
    /\ lastPresented = NoBuffer
    /\ gfxQueue = <<>>
    /\ fenceCompleted = 0
    /\ m_fenceValue = 0
    /\ fence = 0
    /\ fenceEvent = FALSE
    /\ eventPending = {}
    /\ rendersDone = 0
    /\ presentCount = 0
    /\ startIdx = <<>>
    /\ presentIdx = <<>>
    /\ released = {}
    /\ waitPath = "none"
    /\ compQueue = <<>>
    /\ computeCompleted = 0
    /\ m_computeFenceValue = 0
    /\ computeEvent = FALSE
    /\ computePending = {}
    /\ simsDone = 0
    /\ signals = <<>>
    /\ barriers = <<>>
    /\ submitted = <<>>
    /\ m_shaders = [id \in ShaderIds |-> NoShader]
    /\ shaderPc = "run"
    /\ blobReads = {}
    /\ registrations = [id \in ShaderIds |-> 0]

\* ------------------------------------------------- D3D::FindAndCreateDevice

\* D3D12CreateDevice(adapter i, D3D_FEATURE_LEVEL_12_1) succeeds
Create12OK(i) == i \in 1 .. Len(adapters) /\ adapters[i]

\* D3D12CreateDevice(nullptr, D3D_FEATURE_LEVEL_11_1): the default adapter is
\* the first enumerated one; with no adapter at all there is nothing to create on
Create11OK == Len(adapters) > 0 /\ default11OK

Find_Factory ==
    /\ pc = "Find_Factory"
    /\ UNCHANGED shaderVars
    /\ IF factoryOK
       THEN /\ pc' = "Find_Enum"
            /\ created' = created \cup {"factory"}
            /\ findResult' = findResult
       ELSE /\ pc' = "CreateCommandsAndSwapChain"
            /\ created' = created
            /\ findResult' = "false"
    /\ UNCHANGED compVars
    /\ UNCHANGED <<caller, envVars, adapterIndex, adapter, tried, m_device, listVars,
                   ringVars, gfxQueue, fenceVars, histVars, released>>

\* two adapters are stepped over at once
SkipsAnAdapter(i) == i + 2

\* ++adapterIndex
NextAdapterIndex(i) == i + 1

\* the adapter of the last successful EnumAdapters1 is kept
KeepsLastAdapter(prev) == prev

\* EnumAdapters1 fails (DXGI_ERROR_NOT_FOUND): the out pointer it was handed
\* is null afterwards
AdapterAfterFailedEnum(prev) == 0

\* one iteration of the for (;;) loop: EnumAdapters1, then D3D12CreateDevice
Find_Enum ==
    /\ pc = "Find_Enum"
    /\ UNCHANGED shaderVars
    /\ IF adapterIndex >= Len(adapters)
       THEN \* EnumAdapters1 fails: break
            /\ adapter' = AdapterAfterFailedEnum(adapter)
            /\ pc' = "Find_Create"
            /\ UNCHANGED <<adapterIndex, tried, m_device>>
       ELSE /\ adapter' = adapterIndex + 1
            /\ tried' = tried \cup {adapterIndex + 1}
            /\ IF Create12OK(adapterIndex + 1)
               THEN /\ m_device' = "12_1"
                    /\ pc' = "Find_Create"
                    /\ adapterIndex' = adapterIndex
               ELSE /\ m_device' = m_device
                    /\ pc' = "Find_Enum"
                    /\ adapterIndex' = NextAdapterIndex(adapterIndex)
    /\ UNCHANGED compVars
    /\ UNCHANGED <<caller, envVars, findResult, created, listVars, ringVars, gfxQueue,
                   fenceVars, histVars, released>>

\* if (adapter) ... else ...
Find_Create ==
    /\ pc = "Find_Create"
    /\ UNCHANGED shaderVars
    /\ IF adapter # 0
       THEN IF Create12OK(adapter)
            THEN m_device' = "12_1" /\ findResult' = "true"
            ELSE m_device' = m_device /\ findResult' = "false"
       ELSE IF Create11OK
            THEN m_device' = "11_1" /\ findResult' = "true"
            ELSE m_device' = m_device /\ findResult' = "false"
    /\ pc' = "CreateCommandsAndSwapChain"
    /\ UNCHANGED compVars
    /\ UNCHANGED <<caller, envVars, adapterIndex, adapter, tried, created, listVars,
                   ringVars, gfxQueue, fenceVars, histVars, released>>

\* ---------------------------------------- D3D::CreateCommandsAndSwapChain

\* m_device->CreateCommandQueue ... CreateSwapChainForHwnd; a failing call
\* trips its assert.  Initialize does not look at the result of
\* FindAndCreateDevice, so with a null m_device the first call goes through a
\* null pointer: the process crashes (first disjunct), or the call goes on
\* with whatever is at that address (second disjunct).
CreateCommandsAndSwapChain ==
    /\ pc = "CreateCommandsAndSwapChain"
    /\ UNCHANGED shaderVars
    /\ \/ /\ m_device = "null"
          /\ pc' = "crashed"
          /\ UNCHANGED <<created, listState, scIndex>>
       \/ /\ \E ok \in BOOLEAN :
                IF ok
                THEN /\ pc' = "CreateRenderTargetsAndFences"
                     /\ created' = created \cup {"queue", "allocator", "list", "swapchain"}
                     /\ listState' = "recording"
                     /\ scIndex' = 0
                ELSE /\ pc' = "aborted"
                     /\ UNCHANGED <<created, listState, scIndex>>
    /\ UNCHANGED compVars
    /\ UNCHANGED <<caller, envVars, findVars, recorded, bufState, m_frameIndex, displayed,
                   lastPresented, gfxQueue, fenceVars, histVars, released>>

\* --------------------------------------- D3D::CreateRenderTargetsAndFences

\* the index starts one buffer off the swap chain's
InitialFrameIndexOffByOne(sc) == (sc + 1) % FRAME_BUFFERS

\* m_frameIndex = m_swapChain->GetCurrentBackBufferIndex()
InitialFrameIndex(sc) == sc

CreateRenderTargetsAndFences ==
    /\ pc = "CreateRenderTargetsAndFences"
    /\ UNCHANGED shaderVars
    /\ \E ok \in BOOLEAN :
          IF ok
          THEN /\ pc' = "PrepareScene"
               /\ m_frameIndex' = InitialFrameIndex(scIndex)
               /\ created' = created \cup {"rtvheap", "fence", "event"}
               /\ fenceCompleted' = 0
               /\ m_fenceValue' = 1
               /\ fenceEvent' = FALSE
               /\ eventPending' = {}
          ELSE /\ pc' = "aborted"
               /\ UNCHANGED <<m_frameIndex, created, fenceCompleted, m_fenceValue,
                              fenceEvent, eventPending>>
    /\ UNCHANGED compVars
    /\ UNCHANGED <<caller, envVars, findVars, listVars, scIndex, displayed, lastPresented,
                   gfxQueue, fence, waitPath, histVars, released>>

\* ------------------------------------------------------- D3D::Initialize

Cmd(op, b) == [op |-> op, buf |-> b]

\* CreateViewportAndScissorRect, LoadObjects, LoadShaders, LoadTextures, root
\* signature, pipeline state, descriptor heap and SRVs: the texture uploads
\* are recorded in the command list
PrepareScene ==
    /\ pc = "PrepareScene"
    /\ UNCHANGED shaderVars
    /\ \E ok \in BOOLEAN :
          IF ok
          THEN /\ pc' = "Init_Execute"
               /\ created' = created \cup {"scene"}
               /\ recorded' = Append(recorded, Cmd("Upload", NoBuffer))
          ELSE /\ pc' = "aborted"
               /\ UNCHANGED <<created, recorded>>
    /\ UNCHANGED compVars
    /\ UNCHANGED <<caller, envVars, findVars, listState, bufState, ringVars, gfxQueue,
                   fenceVars, histVars, released>>

\* ------------------------------------------------ D3D::ExecuteCommandList

Item(kind, val) == [kind |-> kind, val |-> val]

\* the list is handed to the queue without Close
ExecuteWithoutClose(target) ==
    /\ listState' = listState
    /\ gfxQueue' = Append(gfxQueue, Item("list", target))
    /\ submitted' = Append(submitted, [target |-> target, cmds |-> recorded,
                                       state |-> listState'])

\* Close, then ExecuteCommandLists on m_commandQueue
ExecuteCommandList(target) ==
    /\ listState' = "closed"
    /\ gfxQueue' = Append(gfxQueue, Item("list", target))
    /\ submitted' = Append(submitted, [target |-> target, cmds |-> recorded,
                                       state |-> listState'])

\* Initialize returns right after ExecuteCommandList, without the wait
InitReturnsWithoutWait == "Wait_Return"

\* where Initialize goes after ExecuteCommandList
InitAfterExecute == "Wait_Signal"

Init_Execute ==
    /\ pc = "Init_Execute"
    /\ UNCHANGED shaderVars
    /\ ExecuteCommandList(NoBuffer)
    /\ pc' = InitAfterExecute
    /\ caller' = "Initialize"
    /\ UNCHANGED compVars
    /\ UNCHANGED <<envVars, findVars, created, recorded, bufState, ringVars, fenceVars,
                   rendersDone, presentCount, startIdx, presentIdx, signals,
                   barriers, released>>

\* ---------------------------------------------- D3D::WaitForPreviousFrame

\* the fence value is never advanced
FenceValueNotAdvanced(v) == v

\* m_fenceValue++
NextFenceValue(v) == v + 1

\* const UINT64 fence = m_fenceValue; Signal(m_fence, fence); m_fenceValue++
Wait_Signal ==
    /\ pc = "Wait_Signal"
    /\ UNCHANGED shaderVars
    /\ fence' = m_fenceValue
    /\ gfxQueue' = Append(gfxQueue, Item("signal", m_fenceValue))
    /\ m_fenceValue' = NextFenceValue(m_fenceValue)
    /\ signals' = Append(signals, m_fenceValue)
    /\ waitPath' = "none"
    /\ pc' = "Wait_Check"
    /\ UNCHANGED compVars
    /\ UNCHANGED <<caller, envVars, findVars, created, listVars, ringVars, fenceCompleted,
                   fenceEvent, eventPending, rendersDone, presentCount, startIdx,
                   presentIdx, barriers, submitted, released>>

\* the comparison is off by one
NeedWaitOffByOne(completed, f) == completed + 1 < f

\* m_fence->GetCompletedValue() < fence
NeedWait(completed, f) == completed < f

Wait_Check ==
    /\ pc = "Wait_Check"
    /\ UNCHANGED shaderVars
    /\ IF NeedWait(fenceCompleted, fence)
       THEN pc' = "Wait_SetEvent" /\ waitPath' = waitPath
       ELSE pc' = "Wait_Return" /\ waitPath' = "check"
    /\ UNCHANGED compVars
    /\ UNCHANGED <<caller, envVars, findVars, created, listVars, ringVars, gfxQueue,
                   fenceCompleted, m_fenceValue, fence, fenceEvent, eventPending, histVars,
                   released>>

\* the event is registered for m_fenceValue, already incremented
EventValueAfterIncrement(f, fv) == fv

\* the value handed to SetEventOnCompletion: the local fence
EventValue(f, fv) == f

\* m_fence->SetEventOnCompletion(fence, m_fenceEvent): the event is set at
\* once when the fence has already reached the value
Wait_SetEvent ==
    /\ pc = "Wait_SetEvent"
    /\ UNCHANGED shaderVars
    /\ LET v == EventValue(fence, m_fenceValue)
       IN IF fenceCompleted >= v
          THEN fenceEvent' = TRUE /\ eventPending' = eventPending
          ELSE fenceEvent' = fenceEvent /\ eventPending' = eventPending \cup {v}
    /\ pc' = "Wait_Block"
    /\ UNCHANGED compVars
    /\ UNCHANGED <<caller, envVars, findVars, created, listVars, ringVars, gfxQueue,
                   fenceCompleted, m_fenceValue, fence, waitPath, histVars, released>>

\* a manual-reset event: a satisfied wait leaves it signaled
ManualResetEvent(ev) == ev

\* m_fenceEvent = CreateEvent(nullptr, 0, 0, nullptr): bManualReset is 0, a
\* satisfied wait resets the event
EventAfterWait(ev) == FALSE

\* WaitForSingleObject(m_fenceEvent, INFINITE)
Wait_Block ==
    /\ pc = "Wait_Block"
    /\ UNCHANGED shaderVars
    /\ fenceEvent
    /\ fenceEvent' = EventAfterWait(fenceEvent)
    /\ waitPath' = "event"
    /\ pc' = "Wait_Return"
    /\ UNCHANGED compVars
    /\ UNCHANGED <<caller, envVars, findVars, created, listVars, ringVars, gfxQueue,
                   fenceCompleted, m_fenceValue, fence, eventPending, histVars, released>>

\* the return of WaitForPreviousFrame into Initialize, EndScene or ShutDown
Wait_Return ==
    /\ pc = "Wait_Return"
    /\ UNCHANGED shaderVars
    /\ pc' = CASE caller = "Initialize" -> "idle"
               [] caller = "EndScene" -> "EndScene_FrameIndex"
               [] OTHER -> "ShutDown_CloseHandle"
    /\ caller' = "none"
    /\ UNCHANGED compVars
    /\ UNCHANGED <<envVars, findVars, created, listVars, ringVars, gfxQueue, fenceVars,
                   histVars, released>>

\* ----------------------------------------------------------- D3D::Render

Render ==
    /\ pc = "idle"
    /\ UNCHANGED shaderVars
    /\ rendersDone < MaxFrames
    /\ pc' = "BeginScene_Reset"
    /\ startIdx' = Append(startIdx, m_frameIndex)
    /\ UNCHANGED compVars
    /\ UNCHANGED <<caller, envVars, findVars, created, listVars, ringVars, gfxQueue,
                   fenceVars, rendersDone, presentCount, presentIdx, logVars, released>>

\* m_commandAllocator->Reset(); m_commandList->Reset(...)
BeginScene_Reset ==
    /\ pc = "BeginScene_Reset"
    /\ UNCHANGED shaderVars
    /\ listState' = "recording"
    /\ recorded' = <<>>
    /\ pc' = "BeginScene_Record"
    /\ UNCHANGED compVars
    /\ UNCHANGED <<caller, envVars, findVars, created, bufState, ringVars, gfxQueue,
                   fenceVars, histVars, released>>

\* the other buffer of the ring is taken
OtherBackBuffer(fi) == (fi + 1) % FRAME_BUFFERS

\* m_backBufferRenderTarget[m_frameIndex]
BackBufferTarget(fi) == fi

\* a transition barrier is recorded: the tracked state of the buffer is `after`
Transition(states, b, before, after) == [states EXCEPT ![b] = after]

\* barrier.Transition(..., D3D12_RESOURCE_STATE_PRESENT, D3D12_RESOURCE_STATE_RENDER_TARGET)
BeginSceneBarrier == [before |-> "PRESENT", after |-> "RENDER_TARGET"]

\* the clear is recorded ahead of the barrier
ClearBeforeBarrier(b, fi) ==
    <<Cmd("SetRootSignature", NoBuffer),
      Cmd("RSSetViewports", NoBuffer),
      Cmd("RSSetScissorRects", NoBuffer),
      Cmd("OMSetRenderTargets", fi),
      Cmd("ClearRenderTargetView", fi),
      Cmd("Barrier_PRESENT_RENDER_TARGET", b)>>

\* the root signature is not set
NoRootSignature(b, fi) ==
    <<Cmd("RSSetViewports", NoBuffer),
      Cmd("RSSetScissorRects", NoBuffer),
      Cmd("Barrier_PRESENT_RENDER_TARGET", b),
      Cmd("OMSetRenderTargets", fi),
      Cmd("ClearRenderTargetView", fi)>>

\* the commands BeginScene records after the reset, in order
BeginSceneCommands(b, fi) ==
    <<Cmd("SetRootSignature", NoBuffer),
      Cmd("RSSetViewports", NoBuffer),
      Cmd("RSSetScissorRects", NoBuffer),
      Cmd("Barrier_PRESENT_RENDER_TARGET", b),
      Cmd("OMSetRenderTargets", fi),
      Cmd("ClearRenderTargetView", fi)>>

\* SetRootSignature .. ClearRenderTargetView
BeginScene_Record ==
    /\ pc = "BeginScene_Record"
    /\ UNCHANGED shaderVars
    /\ LET b == BackBufferTarget(m_frameIndex)
           t == BeginSceneBarrier
       IN /\ recorded' = recorded \o BeginSceneCommands(b, m_frameIndex)
          /\ bufState' = Transition(bufState, b, t.before, t.after)
          /\ barriers' = Append(barriers, [buf |-> b, before |-> t.before,
                                           after |-> t.after])
    /\ pc' = "Render_Draw"
    /\ UNCHANGED compVars
    /\ UNCHANGED <<caller, envVars, findVars, created, listState, ringVars, gfxQueue,
                   fenceVars, rendersDone, presentCount, startIdx, presentIdx, signals,
                   submitted, released>>

\* SetTopology, SetRootDescriptorTable, BindBuffers, Draw
Render_Draw ==
    /\ pc = "Render_Draw"
    /\ UNCHANGED shaderVars
    /\ recorded' = recorded \o <<Cmd("IASetPrimitiveTopology", NoBuffer),
                                 Cmd("SetRootDescriptorTable", NoBuffer),
                                 Cmd("BindBuffers", NoBuffer),
                                 Cmd("Draw", NoBuffer)>>
    /\ pc' = "EndScene_Barrier"
    /\ UNCHANGED compVars
    /\ UNCHANGED <<caller, envVars, findVars, created, listState, bufState, ringVars,
                   gfxQueue, fenceVars, histVars, released>>

\* --------------------------------------------------------- D3D::EndScene

\* the states of the BeginScene barrier are copied
EndSceneBarrierCopied == [before |-> "PRESENT", after |-> "RENDER_TARGET"]

\* barrier.Transition(..., D3D12_RESOURCE_STATE_RENDER_TARGET, D3D12_RESOURCE_STATE_PRESENT)
EndSceneBarrier == [before |-> "RENDER_TARGET", after |-> "PRESENT"]

\* ExecuteCommandList is left out of EndScene
EndSceneWithoutExecute == "EndScene_Present"

\* where EndScene goes after recording its barrier
EndSceneAfterBarrier == "EndScene_Execute"

EndScene_Barrier ==
    /\ pc = "EndScene_Barrier"
    /\ UNCHANGED shaderVars
    /\ LET b == BackBufferTarget(m_frameIndex)
           t == EndSceneBarrier
       IN /\ recorded' = Append(recorded, Cmd("Barrier_RENDER_TARGET_PRESENT", b))
          /\ bufState' = Transition(bufState, b, t.before, t.after)
          /\ barriers' = Append(barriers, [buf |-> b, before |-> t.before,
                                           after |-> t.after])
    /\ pc' = EndSceneAfterBarrier
    /\ UNCHANGED compVars
    /\ UNCHANGED <<caller, envVars, findVars, created, listState, ringVars, gfxQueue,
                   fenceVars, rendersDone, presentCount, startIdx, presentIdx, signals,
                   submitted, released>>

EndScene_Execute ==
    /\ pc = "EndScene_Execute"
    /\ UNCHANGED shaderVars
    /\ ExecuteCommandList(BackBufferTarget(m_frameIndex))
    /\ pc' = "EndScene_Present"
    /\ UNCHANGED compVars
    /\ UNCHANGED <<caller, envVars, findVars, created, recorded, bufState, ringVars,
                   fenceVars, rendersDone, presentCount, startIdx, presentIdx, signals,
                   barriers, released>>

\* the flip model swap chain moves to the next buffer of the ring at Present
PresentAdvance(i) == (i + 1) % FRAME_BUFFERS

\* m_swapChain->Present(0, 0): the current back buffer is queued for display
EndScene_Present ==
    /\ pc = "EndScene_Present"
    /\ UNCHANGED shaderVars
    /\ gfxQueue' = Append(gfxQueue, Item("present", scIndex))
    /\ lastPresented' = scIndex
    /\ scIndex' = PresentAdvance(scIndex)
    /\ presentCount' = presentCount + 1
    /\ presentIdx' = Append(presentIdx, m_frameIndex)
    /\ pc' = "Wait_Signal"
    /\ caller' = "EndScene"
    /\ UNCHANGED compVars
    /\ UNCHANGED <<envVars, findVars, created, listVars, m_frameIndex, displayed,
                   fenceVars, rendersDone, startIdx, logVars, released>>

\* the index is not re-queried after Present
StaleFrameIndex(sc, old) == old

\* m_frameIndex = m_swapChain->GetCurrentBackBufferIndex()
AcquiredFrameIndex(sc, old) == sc

EndScene_FrameIndex ==
    /\ pc = "EndScene_FrameIndex"
    /\ UNCHANGED shaderVars
    /\ m_frameIndex' = AcquiredFrameIndex(scIndex, m_frameIndex)
    /\ rendersDone' = rendersDone + 1
    /\ pc' = "idle"
    /\ UNCHANGED compVars
    /\ UNCHANGED <<caller, envVars, findVars, created, listVars, scIndex, displayed,
                   lastPresented, gfxQueue, fenceVars, presentCount, startIdx, presentIdx,
                   logVars, released>>

\* --------------------------------------------------------- D3D::ShutDown

ShutDown ==
    /\ pc = "idle"
    /\ UNCHANGED shaderVars
    /\ pc' = "Wait_Signal"
    /\ caller' = "ShutDown"
    /\ UNCHANGED compVars
    /\ UNCHANGED <<envVars, findVars, created, listVars, ringVars, gfxQueue, fenceVars,
                   histVars, released>>

ShutDown_CloseHandle ==
    /\ pc = "ShutDown_CloseHandle"
    /\ UNCHANGED shaderVars
    /\ released' = released \cup {"fenceEvent"}
    /\ pc' = "ShutDown_ReleaseTexture"
    /\ UNCHANGED compVars
    /\ UNCHANGED <<caller, envVars, findVars, created, listVars, ringVars, gfxQueue,
                   fenceVars, histVars>>

ShutDown_ReleaseTexture ==
    /\ pc = "ShutDown_ReleaseTexture"
    /\ UNCHANGED shaderVars
    /\ released' = released \cup {"textures"}
    /\ pc' = "ShutDown_ReleaseDevice"
    /\ UNCHANGED compVars
    /\ UNCHANGED <<caller, envVars, findVars, created, listVars, ringVars, gfxQueue,
                   fenceVars, histVars>>

ShutDown_ReleaseDevice ==
    /\ pc = "ShutDown_ReleaseDevice"
    /\ UNCHANGED shaderVars
    /\ released' = released \cup {"device"}
    /\ pc' = "done"
    /\ UNCHANGED compVars
    /\ UNCHANGED <<caller, envVars, findVars, created, listVars, ringVars, gfxQueue,
                   fenceVars, histVars>>

\* ------------------------------------- D3D::Simulate (compute queue side)

gfxAll == <<pc, caller, envVars, findVars, created, listVars, ringVars, gfxQueue,
            fenceVars, histVars, released>>

\* the per-frame driver calls Simulate before Render: the compute dispatch of
\* the frame is recorded
Simulate ==
    /\ pc = "idle"
    /\ UNCHANGED shaderVars
    /\ simsDone < MaxSims
    /\ pc' = "Simulate_Execute"
    /\ UNCHANGED compVars
    /\ UNCHANGED <<caller, envVars, findVars, created, listVars, ringVars, gfxQueue,
                   fenceVars, histVars, released>>

\* ExecuteComputeCommandList: the dispatch is handed to the compute queue
ExecuteComputeCommandList ==
    /\ pc = "Simulate_Execute"
    /\ UNCHANGED shaderVars
    /\ compQueue' = Append(compQueue, Item("dispatch", simsDone))
    /\ pc' = "Compute_Signal"
    /\ UNCHANGED <<computeCompleted, m_computeFenceValue, computeEvent, computePending,
                   simsDone>>
    /\ UNCHANGED <<caller, envVars, findVars, created, listVars, ringVars, gfxQueue,
                   fenceVars, histVars, released>>

\* WaitForComputeShader, signal(computeQueue): the counter is incremented and
\* a signal of the new value Cf is enqueued behind the dispatch
Compute_Signal ==
    /\ pc = "Compute_Signal"
    /\ UNCHANGED shaderVars
    /\ m_computeFenceValue' = m_computeFenceValue + 1
    /\ compQueue' = Append(compQueue, Item("signal", m_computeFenceValue + 1))
    /\ pc' = "Compute_Check"
    /\ UNCHANGED <<computeCompleted, computeEvent, computePending, simsDone>>
    /\ UNCHANGED <<caller, envVars, findVars, created, listVars, ringVars, gfxQueue,
                   fenceVars, histVars, released>>

\* the compute wait is off by one
ComputeNeedWaitOffByOne(completed, cf) == completed + 1 < cf

\* waitUntil(Cf) has to block while the completed value is below Cf
ComputeNeedWait(completed, cf) == completed < cf

\* WaitForComputeShader, waitUntil(Cf): return at once when Cf is reached,
\* else register the event for Cf
Compute_Check ==
    /\ pc = "Compute_Check"
    /\ UNCHANGED shaderVars
    /\ IF ComputeNeedWait(computeCompleted, m_computeFenceValue)
       THEN /\ pc' = "Compute_Block"
            /\ computePending' = computePending \cup {m_computeFenceValue}
       ELSE /\ pc' = "Simulate_Return"
            /\ computePending' = computePending
    /\ UNCHANGED <<compQueue, computeCompleted, m_computeFenceValue, computeEvent, simsDone>>
    /\ UNCHANGED <<caller, envVars, findVars, created, listVars, ringVars, gfxQueue,
                   fenceVars, histVars, released>>

\* WaitForComputeShader, waitUntil(Cf): the blocking wait on the event
Compute_Block ==
    /\ pc = "Compute_Block"
    /\ UNCHANGED shaderVars
    /\ computeEvent
    /\ computeEvent' = FALSE
    /\ pc' = "Simulate_Return"
    /\ UNCHANGED <<compQueue, computeCompleted, m_computeFenceValue, computePending,
                   simsDone>>
    /\ UNCHANGED <<caller, envVars, findVars, created, listVars, ringVars, gfxQueue,
                   fenceVars, histVars, released>>

Simulate_Return ==
    /\ pc = "Simulate_Return"
    /\ UNCHANGED shaderVars
    /\ simsDone' = simsDone + 1
    /\ pc' = "idle"
    /\ UNCHANGED <<compQueue, computeCompleted, m_computeFenceValue, computeEvent,
                   computePending>>
    /\ UNCHANGED <<caller, envVars, findVars, created, listVars, ringVars, gfxQueue,
                   fenceVars, histVars, released>>

\* the compute queue completes its oldest entry
ComputeGPUStep ==
    /\ compQueue # <<>>
    /\ UNCHANGED shaderVars
    /\ LET h == Head(compQueue)
       IN /\ compQueue' = Tail(compQueue)
          /\ IF h.kind = "signal"
             THEN /\ computeCompleted' = h.val
                  /\ computeEvent' = (computeEvent \/ \E v \in computePending : v <= h.val)
                  /\ computePending' = {v \in computePending : v > h.val}
             ELSE UNCHANGED <<computeCompleted, computeEvent, computePending>>
    /\ UNCHANGED <<m_computeFenceValue, simsDone>>
    /\ UNCHANGED gfxAll

\* ------------------------------------------------------------- the GPU

\* the graphics queue completes its oldest entry: a command list, a fence
\* signal (which sets the events registered for values now reached) or a present
GPUStep ==
    /\ gfxQueue # <<>>
    /\ UNCHANGED shaderVars
    /\ LET h == Head(gfxQueue)
       IN /\ gfxQueue' = Tail(gfxQueue)
          /\ IF h.kind = "signal"
             THEN /\ fenceCompleted' = h.val
                  /\ fenceEvent' = (fenceEvent \/ \E v \in eventPending : v <= h.val)
                  /\ eventPending' = {v \in eventPending : v > h.val}
             ELSE UNCHANGED <<fenceCompleted, fenceEvent, eventPending>>
          /\ displayed' = IF h.kind = "present" THEN h.val ELSE displayed
    /\ UNCHANGED compVars
    /\ UNCHANGED <<pc, caller, envVars, findVars, created, listVars, m_frameIndex, scIndex,
                   lastPresented, m_fenceValue, fence, waitPath, histVars, released>>

Next ==
    \/ Find_Factory
    \/ Find_Enum
    \/ Find_Create
    \/ CreateCommandsAndSwapChain
    \/ CreateRenderTargetsAndFences
    \/ PrepareScene
    \/ Init_Execute
    \/ Wait_Signal
    \/ Wait_Check
    \/ Wait_SetEvent
    \/ Wait_Block
    \/ Wait_Return
    \/ Render
    \/ BeginScene_Reset
    \/ BeginScene_Record
    \/ Render_Draw
    \/ EndScene_Barrier
    \/ EndScene_Execute
    \/ EndScene_Present
    \/ EndScene_FrameIndex
    \/ ShutDown
    \/ ShutDown_CloseHandle
    \/ ShutDown_ReleaseTexture
    \/ ShutDown_ReleaseDevice
    \/ Simulate
    \/ ExecuteComputeCommandList
    \/ Compute_Signal
    \/ Compute_Check
    \/ Compute_Block
    \/ Simulate_Return
    \/ GPUStep
    \/ ComputeGPUStep

Spec == Init /\ [][Next]_vars

\* the steps of the CPU thread inside Initialize, Render, Simulate and
\* ShutDown: once called, the thread runs on unless it is blocked in a wait.
\* Whether the driver calls Render, Simulate or ShutDown again is left open.
CPUStep ==
    \/ Find_Factory
    \/ Find_Enum
    \/ Find_Create
    \/ CreateCommandsAndSwapChain
    \/ CreateRenderTargetsAndFences
    \/ PrepareScene
    \/ Init_Execute
    \/ Wait_Signal
    \/ Wait_Check
    \/ Wait_SetEvent
    \/ Wait_Block
    \/ Wait_Return
    \/ BeginScene_Reset
    \/ BeginScene_Record
    \/ Render_Draw
    \/ EndScene_Barrier
    \/ EndScene_Execute
    \/ EndScene_Present
    \/ EndScene_FrameIndex
    \/ ShutDown_CloseHandle
    \/ ShutDown_ReleaseTexture
    \/ ShutDown_ReleaseDevice
    \/ ExecuteComputeCommandList
    \/ Compute_Signal
    \/ Compute_Check
    \/ Compute_Block
    \/ Simulate_Return

\* the CPU thread keeps running and each GPU queue eventually completes its
\* oldest entry
LiveSpec ==
    /\ Spec
    /\ WF_vars(CPUStep)
    /\ WF_vars(GPUStep)
    /\ WF_vars(ComputeGPUStep)

\* ------------------------------------------------------- the Shader helper

d3dVars == <<pc, caller, envVars, findVars, created, listVars, ringVars, gfxQueue,
             fenceVars, histVars, released, compVars>>

\* the shader kinds the helper names: VS | PS, CS and VS | GS | PS
KindVSPS == {"VS", "PS"}
KindCS == {"CS"}
KindVSGSPS == {"VS", "GS", "PS"}
ShaderKinds == {KindVSPS, KindCS, KindVSGSPS}

\* the blobs LoadShadersFromFile holds after its if / else if: two for
\* VS | PS, one for CS, none for any other type
LoadedBlobs(type) ==
    IF type = KindVSPS THEN <<"VS_MAIN", "PS_MAIN">>
    ELSE IF type = KindCS THEN <<"CS_MAIN">>
    ELSE <<>>

\* one read of found->second.blobs[slot - 1] for pipeline stage `want`
BlobRead(id, slot, want) ==
    LET d == m_shaders[id]
    IN [id |-> id, slot |-> slot, want |-> want, registered |-> d.present,
        allocated |-> (d.present /\ slot <= Len(d.blobs)),
        entry |-> IF d.present /\ slot <= Len(d.blobs) THEN d.blobs[slot] ELSE "none"]

\* a read that is defined: the id is in the map, the slot is inside the
\* vector and its blob has not been reset
ReadDefined(r) == r.registered /\ r.allocated /\ r.entry # "released"

\* blobs[0].Reset() ... : the slots are released
ResetBlobs(blobs, slots) ==
    [i \in 1 .. Len(blobs) |-> IF i \in slots THEN "released" ELSE blobs[i]]

\* Shader::LoadShadersFromFile(id, shaderPath, type); ok: D3DCompileFromFile
\* succeeds
LoadShadersFromFile(id, type, ok) ==
    /\ shaderPc = "run"
    /\ IF LoadedBlobs(type) # <<>> /\ ~ok
       THEN \* assert(!D3DCompileFromFile(...))
            /\ shaderPc' = "aborted"
            /\ UNCHANGED <<m_shaders, registrations>>
       ELSE IF m_shaders[id].present
       THEN \* m_shaders.insert leaves the entry alone: assert(inserted.second)
            /\ shaderPc' = "aborted"
            /\ UNCHANGED <<m_shaders, registrations>>
       ELSE /\ m_shaders' = [m_shaders EXCEPT ![id] =
                                [present |-> TRUE, type |-> type,
                                 blobs |-> LoadedBlobs(type), pso |-> FALSE]]
            /\ registrations' = [registrations EXCEPT ![id] = @ + 1]
            /\ shaderPc' = shaderPc
    /\ UNCHANGED blobReads
    /\ UNCHANGED d3dVars

\* the pipeline state is created from the blobs read and the slots are reset;
\* a read that is not defined (find() returned end(), the index is outside
\* the vector, the blob is null) crashes or goes on with what is there
CreateFromBlobs(id, reads, slots) ==
    /\ blobReads' = reads
    /\ IF \A r \in reads : ReadDefined(r)
       THEN \E ok \in BOOLEAN :
               IF ok
               THEN /\ m_shaders' = [m_shaders EXCEPT
                                        ![id].pso = TRUE,
                                        ![id].blobs = ResetBlobs(@, slots)]
                    /\ shaderPc' = shaderPc
               ELSE \* assert(!m_device->Create...PipelineState(...))
                    /\ shaderPc' = "aborted"
                    /\ m_shaders' = m_shaders
       ELSE /\ shaderPc' \in {"crashed", "run"}
            /\ m_shaders' = m_shaders
    /\ UNCHANGED registrations
    /\ UNCHANGED d3dVars

\* Shader::CreateInputLayoutAndPipelineState(id, signature): VS from
\* blobs[0], PS from blobs[1], and GS from blobs[2] for a VS | GS | PS shader
CreateInputLayoutAndPipelineState(id) ==
    /\ shaderPc = "run"
    /\ CreateFromBlobs(id,
          {BlobRead(id, 1, "VS_MAIN"), BlobRead(id, 2, "PS_MAIN")}
              \cup (IF m_shaders[id].type = KindVSGSPS
                    THEN {BlobRead(id, 3, "GS_MAIN")} ELSE {}),
          {1, 2})

\* Shader::CreatePipelineStateForComputeShader(id, signature): CS from blobs[0]
CreatePipelineStateForComputeShader(id) ==
    /\ shaderPc = "run"
    /\ CreateFromBlobs(id, {BlobRead(id, 1, "CS_MAIN")}, {1})

\* the callers load a shader before they create its pipeline state, create
\* it once, and create the pipeline of the shader's kind (D3D::Initialize)
GraphicsShaders ==
    {id \in ShaderIds : m_shaders[id].present /\ ~m_shaders[id].pso
                         /\ KindVSPS \subseteq m_shaders[id].type}
ComputeShaders ==
    {id \in ShaderIds : m_shaders[id].present /\ ~m_shaders[id].pso
                         /\ m_shaders[id].type = KindCS}

ShaderNext ==
    \/ \E id \in ShaderIds, type \in ShaderKinds, ok \in BOOLEAN :
          LoadShadersFromFile(id, type, ok)
    \/ \E id \in GraphicsShaders : CreateInputLayoutAndPipelineState(id)
    \/ \E id \in ComputeShaders : CreatePipelineStateForComputeShader(id)

\* the Shader helper alone, from a system with one adapter
ShaderInit ==
    /\ Init
    /\ adapters = <<TRUE>>
    /\ factoryOK
    /\ default11OK

ShaderSpec == ShaderInit /\ [][ShaderNext]_vars

\* ================================================================ claims

\* command lists submitted to the graphics queue and not yet completed
Outstanding == {i \in 1 .. Len(gfxQueue) : gfxQueue[i].kind = "list"}

\* the value passed to the most recent Signal on the graphics queue
LastSignaled == m_fenceValue - 1

\* C1: whenever BeginScene is about to reset the allocator and the command
\* list, every command list submitted before has completed on the GPU and the
\* fence has reached the value signaled after the most recent submission.
C1_ResetOnlyAfterGpuDone ==
    pc = "BeginScene_Reset" => (Outstanding = {} /\ fenceCompleted >= LastSignaled)

C1_Witness == pc = "BeginScene_Reset" /\ rendersDone >= 1 /\ LastSignaled >= 2

\* C2: whenever WaitForPreviousFrame returns, the fence's completed value is
\* at least the value this call passed to Signal, whichever way the GPU's
\* completion interleaves with the check, SetEventOnCompletion and the wait.
C2_WaitReturnsAfterFence == pc = "Wait_Return" => fenceCompleted >= fence

C2_Witness == pc = "Wait_Return" /\ waitPath = "event" /\ fence >= 2

\* C3: the graphics work of a frame is submitted only when the compute fence
\* has reached the value signaled after the frame's compute dispatch.
C3_GraphicsSubmitAfterCompute ==
    pc \in {"BeginScene_Reset", "BeginScene_Record", "Render_Draw", "EndScene_Barrier",
            "EndScene_Execute"}
        => (computeCompleted >= m_computeFenceValue /\ compQueue = <<>>)

C3_Witness == pc = "EndScene_Execute" /\ m_computeFenceValue >= 1 /\ simsDone >= 1

\* C4: at most one submitted command list is not yet completed, and none is
\* outstanding when Initialize or Render has returned.
C4_OneFrameInFlight ==
    /\ Cardinality(Outstanding) <= 1
    /\ pc = "idle" => Outstanding = {}

C4_Witness == Cardinality(Outstanding) = 1 /\ pc = "Wait_Block" /\ caller = "EndScene"

\* C5: after Initialize and after every Render m_frameIndex is in
\* [0, FRAME_BUFFERS), and with more than one buffer two consecutive Present
\* calls are made with different values of m_frameIndex.
C5_FrameIndexInRangeAndRotates ==
    /\ pc = "idle" => m_frameIndex \in Buffers
    /\ FRAME_BUFFERS > 1 =>
          \A i \in 1 .. (Len(presentIdx) - 1) : presentIdx[i] # presentIdx[i + 1]

C5_Witness == pc = "idle" /\ Len(presentIdx) >= 2

\* C6: with the 2-buffer ring, after Initialize and n Render calls Present has
\* been called exactly n times and the frame index at the start of successive
\* frames alternates 0, 1, 0, 1, ...
C6_PresentPerFrameAndAlternation ==
    (FRAME_BUFFERS = 2 /\ pc = "idle") =>
        /\ presentCount = rendersDone
        /\ Len(startIdx) = rendersDone
        /\ \A i \in 1 .. Len(startIdx) : startIdx[i] = (i - 1) % 2

C6_Witness == pc = "idle" /\ rendersDone = 3 /\ presentCount = 3 /\ startIdx = <<0, 1, 0>>

\* C7: the back buffer a frame transitions to render target and writes is
\* never the buffer handed over by the most recent Present, nor the one the
\* presentation engine displays, while it is recorded and while it is pending
\* on the GPU.
C7_NeverWritesDisplayedBuffer ==
    /\ pc \in {"BeginScene_Record", "Render_Draw", "EndScene_Barrier", "EndScene_Execute"}
          => BackBufferTarget(m_frameIndex) \notin {displayed, lastPresented}
    /\ \A i \in Outstanding : gfxQueue[i].val \in Buffers => gfxQueue[i].val # displayed

C7_Witness == pc = "Render_Draw" /\ displayed \in Buffers /\ lastPresented \in Buffers

\* C8: ShutDown releases nothing (event handle, textures, device) before the
\* fence has reached the last value signaled on the command queue.
C8_ReleaseAfterFullWait ==
    (released # {} \/ pc = "ShutDown_CloseHandle")
        => (fenceCompleted >= LastSignaled /\ gfxQueue = <<>>)

C8_Witness == released = {"fenceEvent", "textures", "device"} /\ rendersDone >= 1

\* the steps of Initialize after FindAndCreateDevice, and what they create
LaterSteps == {"CreateRenderTargetsAndFences", "PrepareScene", "Init_Execute", "Wait_Signal",
               "Wait_Check", "Wait_SetEvent", "Wait_Block", "Wait_Return", "idle", "crashed"}
LaterObjects == {"queue", "allocator", "list", "swapchain", "rtvheap", "fence", "event",
                 "scene"}

\* C9: when FindAndCreateDevice returns false, Initialize performs none of
\* the later steps: nothing is created and nothing is submitted.
C9_AbortsWhenDeviceCreationFails ==
    findResult = "false" =>
        (pc \notin LaterSteps /\ created \cap LaterObjects = {} /\ gfxQueue = <<>>)

\* C10: with an empty adapter list initialization fails with the
\* initialization error and no queue or other GPU object is created.
C10_EmptyAdapterListFailsCleanly ==
    (factoryOK /\ adapters = <<>> /\ pc \notin {"Find_Factory", "Find_Enum", "Find_Create"})
        => (findResult = "false" /\ pc \in {"CreateCommandsAndSwapChain", "aborted"}
            /\ created \cap LaterObjects = {})

\* adapters supporting feature level 12.1, by position in the enumeration
Capable == {i \in 1 .. Len(adapters) : adapters[i]}

\* FindAndCreateDevice has returned
FindReturned == findResult # "none"

\* C11: adapters are tried in enumeration order, and when some enumerated
\* adapter supports feature level 12.1 the device is created on the
\* lowest-index one; no adapter after it is tried.
C11_FirstCapableAdapterSelected ==
    /\ \E k \in 0 .. Len(adapters) : tried = 1 .. k
    /\ (FindReturned /\ factoryOK /\ Capable # {}) =>
          /\ findResult = "true"
          /\ m_device = "12_1"
          /\ adapter \in Capable
          /\ \A i \in Capable : adapter <= i
          /\ tried = 1 .. adapter

C11_Witness ==
    /\ FindReturned
    /\ Len(adapters) = 2
    /\ Capable = {2}
    /\ adapter = 2
    /\ m_device = "12_1"

\* C12: when adapters are enumerated and none supports feature level 12.1,
\* the device is created at feature level 11.1 with no adapter preference,
\* and failure is reported only when that creation fails too.
C12_FallbackToLowerTier ==
    (FindReturned /\ factoryOK /\ Len(adapters) >= 1 /\ Capable = {}) =>
        /\ tried = 1 .. Len(adapters)
        /\ adapter = 0
        /\ findResult = (IF Create11OK THEN "true" ELSE "false")
        /\ m_device = (IF Create11OK THEN "11_1" ELSE "null")

C12_Witness ==
    /\ FindReturned
    /\ Len(adapters) = 2
    /\ Capable = {}
    /\ m_device = "11_1"
    /\ findResult = "true"

\* the values passed to Signal so far are 1, 2, 3, ... and the completed value
\* is at most the last of them
SignalsCountUp ==
    /\ \A i \in 1 .. Len(signals) : signals[i] = i
    /\ "fence" \in created => m_fenceValue = Len(signals) + 1
    /\ fenceCompleted <= Len(signals)

\* C13: the values passed to Signal on the graphics fence are 1, 2, 3, ...,
\* one new value per WaitForPreviousFrame call, and the completed value never
\* decreases and never exceeds the last signaled value.
C13_FenceValuesIncrease ==
    /\ []SignalsCountUp
    /\ [][fenceCompleted' >= fenceCompleted]_vars

C13_Witness == Len(signals) >= 3 /\ fenceCompleted = 3 /\ rendersDone >= 2

\* the barriers recorded on buffer b before position i of the log
BarriersBefore(b, i) == {j \in 1 .. (i - 1) : barriers[j].buf = b}

\* the state of buffer b left by the barriers before position i (PRESENT when
\* there is none)
StateBefore(b, i) ==
    LET js == BarriersBefore(b, i)
    IN IF js = {} THEN "PRESENT"
       ELSE barriers[CHOOSE j \in js : \A k \in js : k <= j].after

\* C14: on every back buffer the recorded barriers form a chain: the before
\* state of each is the state the previous one left (PRESENT at first), the
\* tracked state after a barrier is its after state, and every back buffer is
\* in PRESENT state when Present is called and when BeginScene starts.
C14_BarrierChainConsistent ==
    /\ \A i \in 1 .. Len(barriers) :
          barriers[i].before = StateBefore(barriers[i].buf, i)
    /\ \A b \in Buffers : bufState[b] = StateBefore(b, Len(barriers) + 1)
    /\ pc \in {"EndScene_Present", "BeginScene_Reset"} =>
          \A b \in Buffers : bufState[b] = "PRESENT"

C14_Witness ==
    /\ pc = "EndScene_Present"
    /\ Len(barriers) >= 4
    /\ \A b \in Buffers : BarriersBefore(b, Len(barriers) + 1) # {}

\* the commands that write the back buffer
WriteOps == {"OMSetRenderTargets", "ClearRenderTargetView", "Draw"}

\* in cs, command i stands after a PRESENT->RENDER_TARGET barrier (on the
\* buffer it names, when it names one) with no RENDER_TARGET->PRESENT barrier
\* in between
AfterOpeningBarrier(cs, i) ==
    \E j \in 1 .. (i - 1) :
        /\ cs[j].op = "Barrier_PRESENT_RENDER_TARGET"
        /\ cs[i].buf \in Buffers => cs[j].buf = cs[i].buf
        /\ \A k \in j .. i : cs[k].op # "Barrier_RENDER_TARGET_PRESENT"

\* in cs, a RENDER_TARGET->PRESENT barrier stands after command i
BeforeClosingBarrier(cs, i) ==
    \E j \in (i + 1) .. Len(cs) : cs[j].op = "Barrier_RENDER_TARGET_PRESENT"

\* C15: in the command list of each frame every back-buffer write (set render
\* target, clear, draw) is recorded after the PRESENT->RENDER_TARGET barrier
\* and before the RENDER_TARGET->PRESENT barrier of the frame, and none is
\* recorded outside such a pair.
C15_WritesBetweenBarriers ==
    /\ \A i \in 1 .. Len(recorded) :
          recorded[i].op \in WriteOps => AfterOpeningBarrier(recorded, i)
    /\ \A n \in 1 .. Len(submitted) : \A i \in 1 .. Len(submitted[n].cmds) :
          submitted[n].cmds[i].op \in WriteOps =>
              /\ AfterOpeningBarrier(submitted[n].cmds, i)
              /\ BeforeClosingBarrier(submitted[n].cmds, i)

C15_Witness ==
    /\ Len(submitted) >= 3
    /\ \E i \in 1 .. Len(submitted[3].cmds) : submitted[3].cmds[i].op = "Draw"
    /\ pc = "Render_Draw"

\* C16: every Present call comes after the frame's command list, with its
\* RENDER_TARGET->PRESENT barrier, was closed and submitted; the init list is
\* submitted[1], so the list of the k-th Present is submitted[k + 1].
C16_PresentAfterSubmission ==
    /\ pc = "EndScene_Present" =>
          (listState = "closed" /\ Len(submitted) = presentCount + 2)
    /\ \A k \in 1 .. presentCount :
          /\ Len(submitted) >= k + 1
          /\ LET cs == submitted[k + 1].cmds
             IN /\ cs # <<>>
                /\ cs[Len(cs)] = Cmd("Barrier_RENDER_TARGET_PRESENT", presentIdx[k])

C16_Witness == presentCount >= 2 /\ Len(submitted) = presentCount + 1 /\ pc = "Wait_Block"

\* the commands that use the root signature's slots
RootUsers == {"SetRootDescriptorTable", "BindBuffers", "Draw"}

\* in cs, the root signature is set before command i
RootSignatureSetBefore(cs, i) == \E j \in 1 .. (i - 1) : cs[j].op = "SetRootSignature"

\* C17: in every frame the root signature is set after the reset of the list
\* and before any descriptor-table binding, buffer binding or draw.
C17_RootSignatureBeforeUse ==
    /\ \A i \in 1 .. Len(recorded) :
          recorded[i].op \in RootUsers => RootSignatureSetBefore(recorded, i)
    /\ pc = "Render_Draw" => (recorded # <<>> /\ recorded[1].op = "SetRootSignature")

C17_Witness ==
    /\ pc = "EndScene_Barrier"
    /\ rendersDone >= 1
    /\ \E i \in 1 .. Len(recorded) : recorded[i].op = "Draw"

\* C18: the command list alternates between recording and closed: commands
\* are recorded and Close is called only on a recording list, Reset only on a
\* closed one, and only a closed list is passed to ExecuteCommandLists.
C18_ListAlternates ==
    /\ pc \in {"PrepareScene", "Init_Execute", "BeginScene_Record", "Render_Draw",
               "EndScene_Barrier", "EndScene_Execute"} => listState = "recording"
    /\ pc = "BeginScene_Reset" => listState = "closed"
    /\ \A n \in 1 .. Len(submitted) : submitted[n].state = "closed"
    /\ Outstanding # {} => listState = "closed"

C18_Witness == pc = "BeginScene_Reset" /\ Len(submitted) >= 3 /\ listState = "closed"

\* the CPU thread is inside WaitForPreviousFrame
InWait == pc \in {"Wait_Signal", "Wait_Check", "Wait_SetEvent", "Wait_Block"}

\* C19: with a GPU that eventually completes what is submitted, every call of
\* WaitForPreviousFrame returns, and so every Initialize, Render and ShutDown
\* call comes to its end.
C19_WaitTerminates ==
    /\ InWait ~> (pc = "Wait_Return")
    /\ (pc = "Find_Factory") ~> (pc \in {"idle", "aborted", "crashed"})
    /\ (pc = "BeginScene_Reset") ~> (pc = "idle")
    /\ (caller = "ShutDown") ~> (pc = "done")

C19_Witness == pc = "Wait_Block" /\ ~fenceEvent /\ caller = "EndScene" /\ rendersDone >= 1

\* C20: pipeline-state creation reads only blob slots that
\* LoadShadersFromFile allocated and compiled for a shader of that kind, only
\* for a registered id, and an id is registered at most once.
C20_PipelineReadsLoadedBlobs ==
    /\ \A r \in blobReads : r.registered /\ r.allocated /\ r.entry = r.want
    /\ \A id \in ShaderIds : registrations[id] <= 1

====
